---------------------------- MODULE Spec2Model ----------------------------
(***************************************************************************)
(* Frame-range remapping utilities of lvsfunc (src/lvsfunc/util.py):       *)
(* select_frames, normalize_ranges and replace_ranges.                     *)
(*                                                                         *)
(* Python values are represented as follows.                               *)
(*   clip            [kind, id, num_frames, format, first]; format "None"  *)
(*                   is a variable-format clip (clip.format is None),      *)
(*                   first is the source frame its frame 0 shows           *)
(*   frame           [src |-> clip id, n |-> frame number]                 *)
(*   index entry     <<k>> for a bare int k, <<c, f>> for a tuple (c, f)   *)
(*   bound           <<>> for None, <<k>> for the int k                    *)
(*   Range           [kind |-> "int" | "none" | "tuple", start, end]       *)
(*                   (start = end = <<r>> for the int r, <<>> for None)    *)
(*   ranges argument [form |-> "none" | "single" | "list", items]          *)
(*   lists           sequences; Python's 0-based positions are kept in     *)
(*                   every index computation (element i is seq[i + 1])     *)
(***************************************************************************)
EXTENDS Integers, Sequences, FiniteSets, TLC

VARIABLES op, pc, clips, indicies, ranges, nranges, pos, out_indicies,
          ret, err, fetched, called, renorm

vars == <<op, pc, clips, indicies, ranges, nranges, pos, out_indicies,
          ret, err, fetched, called, renorm>>

-----------------------------------------------------------------------------
(* Bounds of the model *)

MaxClips == 2

MaxFrames == 2

MaxMap == 2

MaxRanges == 2

-----------------------------------------------------------------------------
(* Python and host (VapourSynth) primitives *)

Min(a, b) == IF a < b THEN a ELSE b

Max(a, b) == IF a > b THEN a ELSE b

SeqsUpTo(S, n) == UNION {[1..k -> S] : k \in 0..n}

NoErr == [type |-> "none", msg |-> "none"]

IndexError(m) == [type |-> "IndexError", msg |-> m]

ValueError(m) == [type |-> "ValueError", msg |-> m]

NoValue == [kind |-> "none", num_frames |-> 0]

\* seq[lo:hi] of Python: negative positions count from the end, then both
\* positions are clamped to [0, len(seq)].
PyAdjust(i, n) == IF i < 0 THEN Max(i + n, 0) ELSE Min(i, n)

PySlice(seq, lo, hi) ==
    LET n == Len(seq)
        l == PyAdjust(lo, n)
        h == PyAdjust(hi, n)
    IN  IF l < h THEN SubSeq(seq, l + 1, h) ELSE <<>>

\* seq[lo:]
PySliceFrom(seq, lo) == PySlice(seq, lo, Len(seq))

\* seq[:hi]
PySliceTo(seq, hi) == PySlice(seq, 0, hi)

\* list(zip([c] * n, range(n)))
ZipConst(c, n) == [i \in 1..n |-> <<c, i - 1>>]

\* core.std.BlankClip(clip, length=length): the clip's format, length frames
BlankClip(clip, length) == [clip EXCEPT !.num_frames = length]

\* clip[i] of a VapourSynth clip: the one-frame clip at frame i, or IndexError
ClipGetItemOk(clip, i) ==
    LET j == IF i < 0 THEN clip.num_frames + i ELSE i
    IN  0 <= j /\ j < clip.num_frames

ClipGetItem(clip, i) ==
    LET j == IF i < 0 THEN clip.num_frames + i ELSE i
    IN  [clip EXCEPT !.num_frames = 1, !.first = clip.first + j]

\* The host's frame request: a request past the end of a clip yields its last
\* frame.
GetFrame(clip, n) ==
    [src |-> clip.id, n |-> clip.first + Min(n, clip.num_frames - 1)]

-----------------------------------------------------------------------------
(* select_frames *)

\* lines 123-127: a bare int index is the frame of clip 0
NewIndex(index) == IF Len(index) = 1 THEN <<0, index[1]>> ELSE index

\* lines 122-132: the loop over the indices; the first failing entry raises.
\* clips[clip_idx] at line 131 is a Python list access, which raises
\* IndexError itself when clip_idx = len(clips).
RECURSIVE CheckIndicies(_, _, _)
CheckIndicies(cl, ind, p) ==
    IF p > Len(ind) THEN NoErr
    ELSE LET new_index == NewIndex(ind[p])
             clip_idx == new_index[1]
             frame_idx == new_index[2]
         IN  IF ~(0 <= clip_idx /\ clip_idx <= Len(cl))
             THEN IndexError("Clip index out of range")
             ELSE IF clip_idx >= Len(cl)
             THEN IndexError("list index out of range")
             ELSE IF ~(0 <= frame_idx /\ frame_idx <= cl[clip_idx + 1].num_frames)
             THEN IndexError("Frame index out of range for clip")
             ELSE CheckIndicies(cl, ind, p + 1)

\* CheckFormat with an explicit test for an empty list that raises ValueError
CheckFormat_value(cl) ==
    IF Len(cl) = 0
    THEN ValueError("no clips")
    ELSE IF cl[1].format = "None"
    THEN ValueError("Only constant format clips are supported.")
    ELSE IF Len(cl) > 1 /\ ~(\A i \in 2..Len(cl) : cl[i].format = cl[1].format)
    THEN ValueError("All input clips must be of the same format.")
    ELSE NoErr

\* lines 134-137: clips[0] raises IndexError on an empty list
CheckFormat(cl) ==
    IF Len(cl) = 0
    THEN IndexError("list index out of range")
    ELSE IF cl[1].format = "None"
    THEN ValueError("Only constant format clips are supported.")
    ELSE IF Len(cl) > 1 /\ ~(\A i \in 2..Len(cl) : cl[i].format = cl[1].format)
    THEN ValueError("All input clips must be of the same format.")
    ELSE NoErr

\* Placeholder without the BlankClip of lines 144-145
Placeholder_noblank(cl, length) == cl[1]

\* lines 142-145
Placeholder(cl, length) ==
    IF length # cl[1].num_frames THEN BlankClip(cl[1], length) ELSE cl[1]

\* line 147: core.std.FrameEval(placeholder_clip, partial(...)): a clip of
\* the placeholder's length and format whose frame n is frame n of the clip
\* the function returns for n
FrameEval(placeholder_clip, cl, ind) ==
    [kind |-> "FrameEval", num_frames |-> placeholder_clip.num_frames,
     format |-> placeholder_clip.format, clips |-> cl, indicies |-> ind]

\* lines 119-147; the value is [err, ret]
select_frames(cl, ind) ==
    LET e1 == CheckIndicies(cl, ind, 1)
        e2 == CheckFormat(cl)
        new == [p \in 1..Len(ind) |-> NewIndex(ind[p])]
    IN  IF e1.type # "none" THEN [err |-> e1, ret |-> NoValue]
        ELSE IF e2.type # "none" THEN [err |-> e2, ret |-> NoValue]
        ELSE [err |-> NoErr,
              ret |-> FrameEval(Placeholder(cl, Len(ind)), cl, new)]

\* frame n of a clip: of a source clip, or (lines 139-140 under FrameEval) of
\* a select_frames result; the value is [err, frame]
NoFrame == [src |-> -1, n |-> -1]

RequestFrame(r, n) ==
    IF r.kind = "source"
    THEN [err |-> NoErr, frame |-> GetFrame(r, n)]
    ELSE IF ~(n < Len(r.indicies))
    THEN [err |-> IndexError("list index out of range"), frame |-> NoFrame]
    ELSE LET c == r.indicies[n + 1][1]
             f == r.indicies[n + 1][2]
         IN  IF ~ClipGetItemOk(r.clips[c + 1], f)
             THEN [err |-> IndexError("index out of range"), frame |-> NoFrame]
             ELSE [err |-> NoErr,
                   frame |-> GetFrame(ClipGetItem(r.clips[c + 1], f), n)]

-----------------------------------------------------------------------------
(* Inputs *)

Formats == {"None", "YUV", "RGB"}

Clip(i, L, f) ==
    [kind |-> "source", id |-> i, num_frames |-> L, format |-> f, first |-> 0]

\* lists of up to MaxClips clips of 1..MaxFrames frames with formats in F; the
\* clip at Python position i has id i
ClipLists(F) ==
    UNION {{[i \in 1..k |-> Clip(i - 1, ls[i], fs[i])] :
                ls \in [1..k -> 1..MaxFrames], fs \in [1..k -> F]} :
           k \in 0..MaxClips}

MaxLen(cl) == IF Len(cl) = 0 THEN 0
              ELSE CHOOSE m \in 0..MaxFrames + 1 :
                     /\ \E i \in 1..Len(cl) : cl[i].num_frames = m
                     /\ \A i \in 1..Len(cl) : cl[i].num_frames <= m

\* index entries around the bounds of the given clips
Entries(cl) ==
    {<<k>> : k \in -1..MaxLen(cl)}
    \cup {<<c, f>> : c \in -1..Len(cl), f \in -1..MaxLen(cl)}

NoFetch == [n |-> -1, err |-> NoErr, frame |-> NoFrame]

NoRanges == [form |-> "none", items |-> <<>>]

-----------------------------------------------------------------------------
(* A call of select_frames and the consumer of its result.  The index
   lists of up to MaxMap entries are tried on same-format clips, the
   lists of at most one entry on clips of every format. *)

InitSelect ==
    /\ op = "select_frames"
    /\ pc = "call"
    /\ \/ /\ clips \in ClipLists({"YUV"})
          /\ indicies \in SeqsUpTo(Entries(clips), MaxMap)
       \/ /\ clips \in ClipLists(Formats)
          /\ indicies \in SeqsUpTo(Entries(clips), 1)
    /\ ranges = NoRanges
    /\ nranges = <<>>
    /\ pos = 0
    /\ out_indicies = <<>>
    /\ ret = NoValue
    /\ err = NoErr
    /\ fetched = NoFetch
    /\ called = {}
    /\ renorm = <<>>

SelectFrames ==
    /\ op = "select_frames"
    /\ pc = "call"
    /\ LET r == select_frames(clips, indicies)
       IN  /\ err' = r.err
           /\ ret' = r.ret
           /\ pc' = IF r.err.type = "none" THEN "returned" ELSE "raised"
    /\ UNCHANGED <<op, clips, indicies, ranges, nranges, pos, out_indicies,
                   fetched, called, renorm>>

\* a downstream consumer requests frame n of the returned clip
Fetch(n) ==
    /\ pc = "returned"
    /\ ret.kind # "none"
    /\ n < ret.num_frames
    /\ LET r == RequestFrame(ret, n)
       IN  fetched' = [n |-> n, err |-> r.err, frame |-> r.frame]
    /\ UNCHANGED <<op, pc, clips, indicies, ranges, nranges, pos,
                   out_indicies, ret, err, called, renorm>>

NextSelect ==
    \/ SelectFrames
    \/ \E n \in 0..ret.num_frames - 1 : Fetch(n)

SpecSelect == InitSelect /\ [][NextSelect]_vars

-----------------------------------------------------------------------------
(* normalize_ranges *)

\* line 159: ranges if isinstance(ranges, list) else [ranges]
RangeList(rg) ==
    IF rg.form = "list" THEN rg.items
    ELSE IF rg.form = "none" THEN <<[kind |-> "none", start |-> <<>>, end |-> <<>>]>>
    ELSE <<rg.items[1]>>

\* NormalizeOne wrapping a negative bound x to L + x, as Python indexing does
NormalizeOne_pywrap(r, L) ==
    LET start0 == IF r.kind = "tuple"
                  THEN (IF r.start = <<>> THEN 0 ELSE r.start[1])
                  ELSE IF r.kind = "none" THEN L - 1
                  ELSE r.start[1]
        end0 == IF r.kind = "tuple"
                THEN (IF r.end = <<>> THEN L - 1 ELSE r.end[1])
                ELSE IF r.kind = "none" THEN L - 1
                ELSE r.start[1]
        start == IF start0 < 0 THEN L + start0 ELSE start0
        end == IF end0 < 0 THEN L + end0 ELSE end0
    IN  <<start, end>>

\* NormalizeOne taking the end of a tuple as exclusive
NormalizeOne_exclusive(r, L) ==
    LET start0 == IF r.kind = "tuple"
                  THEN (IF r.start = <<>> THEN 0 ELSE r.start[1])
                  ELSE IF r.kind = "none" THEN L - 1
                  ELSE r.start[1]
        end0 == IF r.kind = "tuple"
                THEN (IF r.end = <<>> THEN L - 1 ELSE r.end[1] - 1)
                ELSE IF r.kind = "none" THEN L - 1
                ELSE r.start[1]
        start == IF start0 < 0 THEN L - 1 + start0 ELSE start0
        end == IF end0 < 0 THEN L - 1 + end0 ELSE end0
    IN  <<start, end>>

\* lines 163-179: one iteration of the loop, for a clip of L frames
NormalizeOne(r, L) ==
    LET start0 == IF r.kind = "tuple"
                  THEN (IF r.start = <<>> THEN 0 ELSE r.start[1])
                  ELSE IF r.kind = "none" THEN L - 1
                  ELSE r.start[1]
        end0 == IF r.kind = "tuple"
                THEN (IF r.end = <<>> THEN L - 1 ELSE r.end[1])
                ELSE IF r.kind = "none" THEN L - 1
                ELSE r.start[1]
        start == IF start0 < 0 THEN L - 1 + start0 ELSE start0
        end == IF end0 < 0 THEN L - 1 + end0 ELSE end0
    IN  <<start, end>>

\* lines 159-181
normalize_ranges(clip, rg) ==
    LET rs == RangeList(rg)
    IN  [p \in 1..Len(rs) |-> NormalizeOne(rs[p], clip.num_frames)]

\* a normalized list given back as a list of explicit (start, end) tuples
AsTuples(out) ==
    [form |-> "list",
     items |-> [p \in 1..Len(out) |->
                  [kind |-> "tuple", start |-> <<out[p][1]>>, end |-> <<out[p][2]>>]]]

\* the Range values over the ints I
Bounds(I) == {<<>>} \cup {<<k>> : k \in I}

Ranges(I) ==
    {[kind |-> "tuple", start |-> s, end |-> e] : s \in Bounds(I), e \in Bounds(I)}
    \cup {[kind |-> "int", start |-> <<k>>, end |-> <<k>>] : k \in I}
    \cup {[kind |-> "none", start |-> <<>>, end |-> <<>>]}

\* a single Range or a list of up to MaxRanges Ranges
RangeArgs(I) ==
    {[form |-> "single", items |-> <<r>>] : r \in Ranges(I)}
    \cup {[form |-> "list", items |-> rs] : rs \in SeqsUpTo(Ranges(I), MaxRanges)}

\* the ranges argument of replace_ranges: None, a single Range, a list of at
\* most one Range, or a list of up to MaxRanges tuples of ints
TupleRanges(I) ==
    {[kind |-> "tuple", start |-> <<s>>, end |-> <<e>>] : s \in I, e \in I}

ShortArgs(I) ==
    {NoRanges}
    \cup {[form |-> "single", items |-> <<r>>] : r \in Ranges(I)}
    \cup {[form |-> "list", items |-> rs] : rs \in SeqsUpTo(Ranges(I), 1)}

ReplaceArgs(I) ==
    ShortArgs(I)
    \cup {[form |-> "list", items |-> rs] : rs \in SeqsUpTo(TupleRanges(I), MaxRanges)}

(* A call of normalize_ranges, and a second call on its result *)

InitNormalize ==
    /\ op = "normalize_ranges"
    /\ pc = "call"
    /\ \E L \in 1..MaxFrames : clips = <<Clip(0, L, "YUV")>>
    /\ ranges \in RangeArgs(-MaxFrames..MaxFrames)
    /\ indicies = <<>>
    /\ nranges = <<>>
    /\ pos = 0
    /\ out_indicies = <<>>
    /\ ret = NoValue
    /\ err = NoErr
    /\ fetched = NoFetch
    /\ called = {}
    /\ renorm = <<>>

NormalizeRanges ==
    /\ op = "normalize_ranges"
    /\ pc = "call"
    /\ nranges' = normalize_ranges(clips[1], ranges)
    /\ pc' = "returned"
    /\ UNCHANGED <<op, clips, indicies, ranges, pos, out_indicies, ret, err,
                   fetched, called, renorm>>

NormalizeAgain ==
    /\ op = "normalize_ranges"
    /\ pc = "returned"
    /\ renorm' = normalize_ranges(clips[1], AsTuples(nranges))
    /\ pc' = "renormalized"
    /\ UNCHANGED <<op, clips, indicies, ranges, nranges, pos, out_indicies,
                   ret, err, fetched, called>>

NextNormalize == NormalizeRanges \/ NormalizeAgain

SpecNormalize == InitNormalize /\ [][NextNormalize]_vars

-----------------------------------------------------------------------------
(* replace_ranges *)

\* ApplyRange slicing clip_b_indices[start:end]
ApplyRange_exclusive(out, clip_b_indices, start, end) ==
    LET tmp0 == PySlice(clip_b_indices, start, end)
        tmp1 == IF start # 0 THEN PySliceTo(out, start) \o tmp0 ELSE tmp0
        tmp2 == IF end < Len(out) - 1
                THEN tmp1 \o PySliceFrom(out, end + 1)
                ELSE tmp1
    IN  tmp2

\* ApplyRange appending out_indicies[end:]
ApplyRange_suffix(out, clip_b_indices, start, end) ==
    LET tmp0 == PySlice(clip_b_indices, start, end + 1)
        tmp1 == IF start # 0 THEN PySliceTo(out, start) \o tmp0 ELSE tmp0
        tmp2 == IF end < Len(out) - 1
                THEN tmp1 \o PySliceFrom(out, end)
                ELSE tmp1
    IN  tmp2

\* ApplyRange putting reversed bounds in order first
ApplyRange_swap(out, clip_b_indices, start, end) ==
    LET lo == Min(start, end)
        hi == Max(start, end)
        tmp0 == PySlice(clip_b_indices, lo, hi + 1)
        tmp1 == IF lo # 0 THEN PySliceTo(out, lo) \o tmp0 ELSE tmp0
        tmp2 == IF hi < Len(out) - 1
                THEN tmp1 \o PySliceFrom(out, hi + 1)
                ELSE tmp1
    IN  tmp2

\* lines 228-233: one iteration of the loop
ApplyRange(out, clip_b_indices, start, end) ==
    LET tmp0 == PySlice(clip_b_indices, start, end + 1)
        tmp1 == IF start # 0 THEN PySliceTo(out, start) \o tmp0 ELSE tmp0
        tmp2 == IF end < Len(out) - 1
                THEN tmp1 \o PySliceFrom(out, end + 1)
                ELSE tmp1
    IN  tmp2

\* ReplaceEntry without the early return of lines 219-220
ReplaceEntry_noreturn(clip_a, clip_b, rg) ==
    [pc |-> "loop", ret |-> NoValue,
     out_indicies |-> ZipConst(0, clip_a.num_frames),
     nranges |-> normalize_ranges(clip_b, rg),
     called |-> {"normalize_ranges"}]

\* lines 219-225: the state in which the loop is entered, or the return of
\* clip_a
ReplaceEntry(clip_a, clip_b, rg) ==
    IF rg.form = "none"
    THEN [pc |-> "returned", ret |-> clip_a,
          out_indicies |-> <<>>, nranges |-> <<>>, called |-> {}]
    ELSE [pc |-> "loop", ret |-> NoValue,
          out_indicies |-> ZipConst(0, clip_a.num_frames),
          nranges |-> normalize_ranges(clip_b, rg),
          called |-> {"normalize_ranges"}]

(* A call of replace_ranges with clip_a = clips[1] and clip_b = clips[2] *)

InitReplace ==
    /\ op = "replace_ranges"
    /\ pc = "call"
    /\ \E la \in 1..MaxFrames, lb \in 1..MaxFrames :
         \/ /\ clips = <<Clip(0, la, "YUV"), Clip(1, lb, "YUV")>>
            /\ ranges \in ReplaceArgs(-1..MaxFrames)
         \/ /\ clips = <<Clip(0, la, "YUV"), Clip(1, lb, "RGB")>>
            /\ ranges \in ShortArgs(-1..MaxFrames)
    /\ indicies = <<>>
    /\ nranges = <<>>
    /\ pos = 0
    /\ out_indicies = <<>>
    /\ ret = NoValue
    /\ err = NoErr
    /\ fetched = NoFetch
    /\ called = {}
    /\ renorm = <<>>

ReplaceCall ==
    /\ op = "replace_ranges"
    /\ pc = "call"
    /\ LET r == ReplaceEntry(clips[1], clips[2], ranges)
       IN  /\ pc' = r.pc
           /\ ret' = r.ret
           /\ out_indicies' = r.out_indicies
           /\ nranges' = r.nranges
           /\ called' = r.called
    /\ UNCHANGED <<op, clips, indicies, ranges, pos, err, fetched, renorm>>

ReplaceStep ==
    /\ op = "replace_ranges"
    /\ pc = "loop"
    /\ pos < Len(nranges)
    /\ out_indicies' = ApplyRange(out_indicies, ZipConst(1, clips[2].num_frames),
                                  nranges[pos + 1][1], nranges[pos + 1][2])
    /\ pos' = pos + 1
    /\ UNCHANGED <<op, pc, clips, indicies, ranges, nranges, ret, err, fetched,
                   called, renorm>>

\* line 235
ReplaceFinish ==
    /\ op = "replace_ranges"
    /\ pc = "loop"
    /\ pos = Len(nranges)
    /\ LET r == select_frames(clips, out_indicies)
       IN  /\ err' = r.err
           /\ ret' = r.ret
           /\ pc' = IF r.err.type = "none" THEN "returned" ELSE "raised"
    /\ called' = called \cup {"select_frames"}
    /\ UNCHANGED <<op, clips, indicies, ranges, nranges, pos, out_indicies,
                   fetched, renorm>>

NextReplace ==
    \/ ReplaceCall
    \/ ReplaceStep
    \/ ReplaceFinish
    \/ \E n \in 0..ret.num_frames - 1 : Fetch(n)

SpecReplace == InitReplace /\ [][NextReplace]_vars

-----------------------------------------------------------------------------
(* All three functions *)

Init == InitSelect \/ InitNormalize \/ InitReplace

Next ==
    \/ SelectFrames
    \/ NormalizeRanges
    \/ NormalizeAgain
    \/ ReplaceCall
    \/ ReplaceStep
    \/ ReplaceFinish
    \/ \E n \in 0..ret.num_frames - 1 : Fetch(n)

Spec == Init /\ [][Next]_vars

-----------------------------------------------------------------------------
(* Properties of select_frames (checked under SpecSelect) *)

\* an index entry as the (seq_id, frame_idx) it denotes
SeqId(e) == IF Len(e) = 1 THEN 0 ELSE e[1]

FrameIdx(e) == IF Len(e) = 1 THEN e[1] ELSE e[2]

ValidEntry(cl, e) ==
    /\ 0 <= SeqId(e) /\ SeqId(e) < Len(cl)
    /\ 0 <= FrameIdx(e) /\ FrameIdx(e) < cl[SeqId(e) + 1].num_frames

ValidMapping(cl, ind) == \A p \in 1..Len(ind) : ValidEntry(cl, ind[p])

SameFormat(cl) ==
    \A i \in 1..Len(cl) : cl[i].format # "None" /\ cl[i].format = cl[1].format

SelectDone == op = "select_frames" /\ pc # "call"

\* C1: a mapping with an entry outside 0 <= seq_id < len(sequences),
\* 0 <= frame_idx < length of its sequence makes select_frames raise the
\* out-of-range error at the call, before any frame is fetched.
C1_EagerReject ==
    (SelectDone /\ ~ValidMapping(clips, indicies))
        => (pc = "raised" /\ err.type = "IndexError" /\ fetched = NoFetch)

\* the frame the entry e selects from the clips cl
Selected(cl, e) == [src |-> cl[SeqId(e) + 1].id, n |-> FrameIdx(e)]

\* C7: for a non-empty list of same-format clips and a valid mapping,
\* select_frames returns a clip of exactly len(mapping) frames whose frame n
\* is frame frame_idx of sequences[seq_id] for (seq_id, frame_idx) =
\* mapping[n], a bare int k standing for (0, k); this is what a consumer
\* gets for every frame it requests.
C7_SelectResult ==
    (SelectDone /\ Len(clips) >= 1 /\ SameFormat(clips)
                /\ ValidMapping(clips, indicies))
        => /\ pc = "returned"
           /\ err = NoErr
           /\ ret.num_frames = Len(indicies)
           /\ \A n \in 0..Len(indicies) - 1 :
                RequestFrame(ret, n) =
                    [err |-> NoErr, frame |-> Selected(clips, indicies[n + 1])]
           /\ fetched.n >= 0 =>
                /\ fetched.err = NoErr
                /\ fetched.frame = Selected(clips, indicies[fetched.n + 1])

\* a frame of the second clip fetched from a result whose length differs
\* from the first clip's, selected next to a bare int entry
C7_Witness ==
    /\ SelectDone /\ pc = "returned"
    /\ Len(clips) = 2 /\ SameFormat(clips) /\ ValidMapping(clips, indicies)
    /\ Len(indicies) # clips[1].num_frames
    /\ \E p \in 1..Len(indicies) : Len(indicies[p]) = 1
    /\ fetched.n >= 0
    /\ SeqId(indicies[fetched.n + 1]) = 1
    /\ FrameIdx(indicies[fetched.n + 1]) # fetched.n

\* C8 as claimed: with zero clips select_frames fails at the call with an
\* invalid-input failure that is neither the out-of-range failure
\* (IndexError) nor the format failure (ValueError).
C8_InvalidInput ==
    (SelectDone /\ Len(clips) = 0)
        => /\ pc = "raised"
           /\ err.type \notin {"none", "IndexError", "ValueError"}
           /\ fetched = NoFetch

\* C8 as amended: with zero clips select_frames fails at the call, for every
\* mapping and before any frame is fetched, with IndexError, the failure it
\* also raises for an out-of-range index.
C8_ZeroClipsIndexError ==
    (SelectDone /\ Len(clips) = 0)
        => /\ pc = "raised"
           /\ err.type = "IndexError"
           /\ ret = NoValue
           /\ fetched = NoFetch

\* zero clips and the empty mapping: the failure comes from clips[0]
C8_Witness ==
    /\ SelectDone /\ Len(clips) = 0 /\ Len(indicies) = 0
    /\ pc = "raised" /\ err = IndexError("list index out of range")

-----------------------------------------------------------------------------
(* Properties of normalize_ranges (checked under SpecNormalize) *)

NormalizeDone == op = "normalize_ranges" /\ pc # "call"

\* a negative value counted back from the last frame L - 1
Wrapped(x, L) == IF x < 0 THEN L - 1 + x ELSE x

\* the pair the rules of the claim give for the Range r
Resolved(r, L) ==
    CASE r.kind = "tuple" ->
           <<Wrapped(IF r.start = <<>> THEN 0 ELSE r.start[1], L),
             Wrapped(IF r.end = <<>> THEN L - 1 ELSE r.end[1], L)>>
      [] r.kind = "none" -> <<L - 1, L - 1>>
      [] r.kind = "int" -> <<Wrapped(r.start[1], L), Wrapped(r.start[1], L)>>

\* C5: normalize_ranges keeps the order and the count of the ranges and
\* resolves each by the rules: None start -> 0, None end -> L - 1, the None
\* sentinel -> (L - 1, L - 1), an int r -> (r, r), then a negative bound x ->
\* L - 1 + x, each bound on its own; so (None, None) gives (0, L - 1),
\* (k, None) gives (k, L - 1) and (k, -1) gives (k, L - 2).
C5_NormalizeRules ==
    NormalizeDone =>
        LET L == clips[1].num_frames
            rs == ranges.items
        IN  /\ Len(nranges) = Len(rs)
            /\ \A p \in 1..Len(rs) :
                 /\ nranges[p] = Resolved(rs[p], L)
                 /\ (rs[p].kind = "tuple" /\ rs[p].start = <<>> /\ rs[p].end = <<>>)
                        => nranges[p] = <<0, L - 1>>
                 /\ (rs[p].kind = "tuple" /\ rs[p].start # <<>> /\ rs[p].end = <<>>)
                        => nranges[p][2] = L - 1
                 /\ (rs[p].kind = "tuple" /\ rs[p].start # <<>> /\ rs[p].end = <<-1>>)
                        => nranges[p][2] = L - 2
                 /\ (rs[p].kind = "tuple" /\ rs[p].start # <<>>
                                          /\ rs[p].start[1] >= 0)
                        => nranges[p][1] = rs[p].start[1]

\* a list of (k, -1) with k > 0 and a negative int, normalized
C5_Witness ==
    /\ NormalizeDone /\ ranges.form = "list" /\ Len(ranges.items) = 2
    /\ ranges.items[1].kind = "tuple"
    /\ ranges.items[1].start # <<>> /\ ranges.items[1].start[1] > 0
    /\ ranges.items[1].end = <<-1>>
    /\ ranges.items[2].kind = "int" /\ ranges.items[2].start[1] < 0
    /\ nranges[1][2] = clips[1].num_frames - 2

NonNegative(out) == \A p \in 1..Len(out) : out[p][1] >= 0 /\ out[p][2] >= 0

-----------------------------------------------------------------------------
(* Properties of replace_ranges (checked under SpecReplace) *)

ReplaceDone == op = "replace_ranges" /\ pc \in {"returned", "raised"}

LenA == clips[1].num_frames

LenB == clips[2].num_frames

InBounds(x) == 0 <= x /\ x <= LenB - 1

\* position i lies in the normalized range r
Covers(r, i) == r[1] <= i /\ i <= r[2]

\* C2: a range whose resolved start or end lies outside
\* [0, replacement_length - 1] is never clamped or ignored: the call ends in
\* an out-of-range failure.
C2_OutOfBoundsFails ==
    (ReplaceDone /\ ranges.form # "none"
       /\ \E p \in 1..Len(nranges) :
            ~InBounds(nranges[p][1]) \/ ~InBounds(nranges[p][2]))
        => (pc = "raised" /\ err.type = "IndexError")

\* the frame a consumer gets at position i when position i is taken from
\* the replacement (b = TRUE) or from the base
Spliced(b, i) == [src |-> IF b THEN clips[2].id ELSE clips[1].id, n |-> i]

\* C4: for clips of the same length L and a single range (s, e) with
\* 0 <= s <= e <= L - 1, the mapping has exactly L entries and output frame
\* i is the replacement's frame i for s <= i <= e and the base's frame i
\* for every other i.
C4_SingleRange ==
    (ReplaceDone /\ ranges.form # "none" /\ LenA = LenB /\ SameFormat(clips)
       /\ Len(nranges) = 1
       /\ 0 <= nranges[1][1] /\ nranges[1][1] <= nranges[1][2]
       /\ nranges[1][2] <= LenB - 1)
        => /\ pc = "returned"
           /\ Len(out_indicies) = LenA
           /\ ret.num_frames = LenA
           /\ \A i \in 0..LenA - 1 :
                /\ out_indicies[i + 1] =
                      <<IF Covers(nranges[1], i) THEN 1 ELSE 0, i>>
                /\ RequestFrame(ret, i) =
                      [err |-> NoErr, frame |-> Spliced(Covers(nranges[1], i), i)]
           /\ fetched.n >= 0 =>
                /\ fetched.err = NoErr
                /\ fetched.frame = Spliced(Covers(nranges[1], fetched.n), fetched.n)

\* a range that starts at frame 0 and ends before the last frame, and the
\* first frame after it fetched from the result
C4_Witness ==
    /\ ReplaceDone /\ pc = "returned" /\ ranges.form # "none"
    /\ LenA = LenB /\ LenA >= 2 /\ Len(nranges) = 1
    /\ nranges[1][1] = 0 /\ 0 <= nranges[1][2] /\ nranges[1][2] < LenA - 1
    /\ fetched.n = nranges[1][2] + 1
    /\ fetched.frame.src = clips[1].id

\* C6: replace_ranges with ranges = None returns clip_a itself: no mapping
\* is built, normalize_ranges and select_frames are not called, the call
\* fetches no frame, and every frame of the result is clip_a's, whatever the
\* replacement's length and format.
C6_NoneIsIdentity ==
    (op = "replace_ranges" /\ ranges.form = "none" /\ pc # "call")
        => /\ pc = "returned"
           /\ ret = clips[1]
           /\ err = NoErr
           /\ called = {}
           /\ out_indicies = <<>> /\ nranges = <<>> /\ pos = 0
           /\ \A n \in 0..LenA - 1 :
                RequestFrame(ret, n) = [err |-> NoErr, frame |-> Spliced(FALSE, n)]
           /\ fetched.n >= 0 => fetched.frame = Spliced(FALSE, fetched.n)

\* the return of clip_a for a replacement of another length and format,
\* before any frame is requested
C6_Witness ==
    /\ op = "replace_ranges" /\ ranges.form = "none" /\ pc = "returned"
    /\ LenA # LenB /\ clips[1].format # clips[2].format
    /\ ret = clips[1] /\ fetched = NoFetch

WellFormed(r) == 0 <= r[1] /\ r[1] <= r[2] /\ r[2] <= LenB - 1

\* the mapping the loop gives for the normalized ranges nr taken in the
\* order given by the permutation f
RECURSIVE Applied(_, _, _)
Applied(nr, f, k) ==
    IF k = 0 THEN ZipConst(0, LenA)
    ELSE ApplyRange(Applied(nr, f, k - 1), ZipConst(1, LenB),
                    nr[f[k]][1], nr[f[k]][2])

\* C9: when the replacement is no longer than the base and every
\* normalized range (s, e) has 0 <= s <= e <= replacement_length - 1, the
\* mapping has the base's length after every iteration of the loop, its
\* entry i is (1, i) when i lies in one of the ranges applied so far and
\* (0, i) otherwise, and the final mapping is the same for every order of
\* the ranges.
C9_LoopInvariant ==
    (op = "replace_ranges" /\ pc \in {"loop", "returned", "raised"}
       /\ ranges.form # "none" /\ LenB <= LenA
       /\ \A p \in 1..Len(nranges) : WellFormed(nranges[p]))
        => /\ Len(out_indicies) = LenA
           /\ \A i \in 0..LenA - 1 :
                out_indicies[i + 1] =
                    <<IF \E p \in 1..pos : Covers(nranges[p], i) THEN 1 ELSE 0, i>>
           /\ pc # "loop" =>
                /\ pos = Len(nranges)
                /\ \A f \in Permutations(1..Len(nranges)) :
                     Applied(nranges, f, Len(nranges)) = out_indicies
                /\ SameFormat(clips) =>
                     (pc = "returned" /\ ret.indicies = out_indicies)

\* a range applied after a different range that contains it
C9_Witness ==
    /\ ReplaceDone /\ pc = "returned" /\ LenB <= LenA
    /\ Len(nranges) = 2 /\ WellFormed(nranges[1]) /\ WellFormed(nranges[2])
    /\ nranges[1] # nranges[2]
    /\ \E i \in 0..LenA - 1 : Covers(nranges[1], i) /\ Covers(nranges[2], i)
    /\ \E i \in 0..LenA - 1 : Covers(nranges[1], i) /\ ~Covers(nranges[2], i)
    /\ \A i \in 0..LenA - 1 : out_indicies[i + 1][1] = 1

Reversed(r) == InBounds(r[1]) /\ InBounds(r[2]) /\ r[1] > r[2]

Entries_of(m) == {m[i] : i \in 1..Len(m)}

\* an iteration of the loop on a reversed pair takes an empty slice of the
\* replacement's self-mapping and leaves a mapping made of entries that the
\* mapping already had
C10_Step ==
    (/\ op = "replace_ranges" /\ pc = "loop" /\ pos < Len(nranges)
     /\ Reversed(nranges[pos + 1])
     /\ pos' = pos + 1)
        => /\ PySlice(ZipConst(1, LenB), nranges[pos + 1][1],
                      nranges[pos + 1][2] + 1) = <<>>
           /\ Entries_of(out_indicies') \subseteq Entries_of(out_indicies)

\* a reversed pair of ints within the replacement's bounds is returned by
\* normalize_ranges as it is, and the call does not fail on it; when it is
\* the only range, the mapping has no entry of the replacement
C10_Unvalidated ==
    (op = "replace_ranges" /\ pc # "call" /\ ranges.form # "none")
        => /\ \A p \in 1..Len(ranges.items) :
                LET r == ranges.items[p]
                IN  (r.kind = "tuple" /\ r.start # <<>> /\ r.end # <<>>
                       /\ Reversed(<<r.start[1], r.end[1]>>))
                      => /\ nranges[p] = <<r.start[1], r.end[1]>>
                         /\ err.type # "IndexError"
                         /\ (SameFormat(clips) => pc # "raised")
           /\ (Len(nranges) = 1 /\ Reversed(nranges[1]))
                => \A i \in 1..Len(out_indicies) : out_indicies[i][1] = 0

\* C10: a pair (s, e) with s > e within the replacement's bounds is not a
\* failure: normalize_ranges returns it unvalidated, replace_ranges raises
\* no error on it and takes an empty slice of the replacement's
\* self-mapping, so the range adds no replacement frame to the mapping.
C10_ReversedRange == [][C10_Step]_vars /\ []C10_Unvalidated

\* a call that went through a reversed pair and a well-formed one and
\* returned
C10_Witness ==
    /\ ReplaceDone /\ pc = "returned" /\ Len(nranges) = 2
    /\ WellFormed(nranges[1]) /\ Reversed(nranges[2])
    /\ ranges.items[2].kind = "tuple"
    /\ \E i \in 1..Len(out_indicies) : out_indicies[i][1] = 1

=============================================================================
